---- MODULE Spec2Model ----
(***************************************************************************)
(* Client-side transaction workflow of the Rent Payment Automation dApp:   *)
(*   - createLease (lease manager): key read -> account fetch -> build ->  *)
(*     sign -> submit -> log, one async call chain per invocation;         *)
(*   - connectWallet / getPublicKey (wallet bridge) and the connect-button *)
(*     click handler of the page script.                                   *)
(* Each action is one run-to-completion step of the JavaScript event loop: *)
(* the code from one resumption (call, or settlement of the awaited        *)
(* promise) up to the next await, return or throw.                         *)
(***************************************************************************)
EXTENDS Integers, Sequences, FiniteSets, TLC

\* ------------------------------------------------------------------ bounds
MaxCalls == 2
MaxClicks == 3

Calls == 1..MaxCalls
Clicks == 1..MaxClicks

\* Inputs of createLease(assetId, duration, price); the arguments are untyped.
ArgTuples == { <<"asset-42", 30, 100>>, <<"asset-7", 12, 250>> }
\* Public keys the wallet extension may report as the active account.
Keys == { "GA", "GB" }
\* Values window.freighterApi.enable() may resolve with.
EnableResults == { "granted", "denied" }

\* ------------------------------------------------------- program constants
contractId == "CCDP5IJT5AZGLCRNBKYXNQ24E6XQYOWAGB2JQR52OQXE7IIP2HM6PIIV"
BaseFee == 100
TimeoutSeconds == 30
\* Networks.TESTNET / Networks.PUBLIC are passphrases; 'TESTNET' is the name
\* handed to the wallet.
NetworksTESTNET == "Test SDF Network ; September 2015"
NetworksPUBLIC == "Public Global Stellar Network ; September 2015"
SignNetwork == "TESTNET"

PassphraseOf(name) ==
    IF name = "TESTNET" THEN NetworksTESTNET ELSE NetworksPUBLIC

\* --------------------------------------------------------------- variables
VARIABLES
    walletPresent,  \* window.freighterApi is defined
    ledgerSeq,      \* remote account state: key -> sequence number
    pc,             \* createLease call -> position in the async chain
    args,           \* call -> <<assetId, duration, price>> it was called with
    pubKey,         \* call -> local const pubKey
    account,        \* call -> local const account (snapshot from getAccount)
    tx,             \* call -> local const tx
    signReq,        \* call -> what was handed to freighterApi.signTransaction
    signedTx,       \* call -> local const signedTx (what the wallet returned)
    submitted,      \* call -> transaction handed to server.submitTransaction
    txResult,       \* call -> local const txResult
    error,          \* call -> reason the returned promise rejected with
    trace,          \* call -> observable events of the call, in order
    console,        \* sequence of console.log('Lease created!', txResult) lines
    hpc,            \* click handler run -> position
    hPubKey,        \* click handler run -> local const pubKey
    hError,         \* click handler run -> uncaught failure
    htrace,         \* click handler run -> observable events, in order
    connectResult,  \* click handler run -> value connectWallet() resolved with
    alerts,         \* click handler run -> alert() calls made by connectWallet
    enableCalls,    \* click handler run -> freighterApi.enable() invocations
    textContent     \* textContent of the #wallet-address element

leaseVars == << ledgerSeq, pc, args, pubKey, account, tx, signReq, signedTx,
                submitted, txResult, error, trace, console >>
pageVars == << hpc, hPubKey, hError, htrace, connectResult, alerts,
               enableCalls, textContent >>
vars == << walletPresent, leaseVars, pageVars >>

\* ------------------------------------------------------------ value shapes
NoKey == "none"
NoArgs == << >>
NoAccount == [kind |-> "none"]
NoTx == [kind |-> "none"]
NoEnvelope == [kind |-> "none"]
NoRequest == [kind |-> "none"]
NoResult == [kind |-> "none"]
NoError == "none"
Undefined == "undefined"

\* Contract.call(contractId, 'create_lease', [assetId, duration, price])
ContractCall(id, method, params) ==
    [contract |-> id, method |-> method, params |-> params]

\* Variant: duration and price passed to the contract in the wrong order.
BuildTxSwapped(acct, assetId, duration, price) ==
    [ kind |-> "tx", source |-> acct.id, seq |-> acct.seq + 1, fee |-> BaseFee,
      timeout |-> TimeoutSeconds, networkPassphrase |-> NetworksTESTNET,
      operations |-> << ContractCall(contractId, "create_lease",
                                     << assetId, price, duration >>) >>,
      signatures |-> << >> ]

\* new TransactionBuilder(account, {fee, networkPassphrase})
\*     .addOperation(Contract.call(...)).setTimeout(30).build()
\* The builder gives the transaction the sequence number after the snapshot's.
BuildTx(acct, assetId, duration, price) ==
    [ kind |-> "tx", source |-> acct.id, seq |-> acct.seq + 1, fee |-> BaseFee,
      timeout |-> TimeoutSeconds, networkPassphrase |-> NetworksTESTNET,
      operations |-> << ContractCall(contractId, "create_lease",
                                     << assetId, duration, price >>) >>,
      signatures |-> << >> ]

\* The signable part of a transaction: what an envelope carries besides the
\* signatures. The network passphrase is not serialized.
BodyOf(t) ==
    [ source |-> t.source, seq |-> t.seq, fee |-> t.fee,
      timeout |-> t.timeout, operations |-> t.operations ]

\* tx.toXDR(): the serialized envelope.
ToXDR(t) ==
    [ kind |-> "envelope", body |-> BodyOf(t), signatures |-> t.signatures ]

\* The wallet signs the hash of (network passphrase, body) with the active key.
WalletSign(env, network, key) ==
    [ env EXCEPT !.signatures =
        Append(@, [ signer |-> key,
                    payload |-> << PassphraseOf(network), env.body >> ]) ]

\* TransactionBuilder.fromXDR(envelope, networkPassphrase) throws on anything
\* that is not a serialized envelope.
FromXDRThrows(env) == env.kind # "envelope"

FromXDR(env, passphrase) ==
    [ kind |-> "tx", source |-> env.body.source, seq |-> env.body.seq,
      fee |-> env.body.fee, timeout |-> env.body.timeout,
      networkPassphrase |-> passphrase, operations |-> env.body.operations,
      signatures |-> env.signatures ]

\* Variant: the signed envelope read back against the public network.
SubmitArgPublic(signed) == FromXDR(signed, NetworksPUBLIC)

\* Argument of server.submitTransaction in createLease.
SubmitArg(signed) == FromXDR(signed, NetworksTESTNET)

\* The ledger's own checks on a submitted transaction (external collaborator).
SignatureValid(t) ==
    \E i \in 1..Len(t.signatures) :
        /\ t.signatures[i].signer = t.source
        /\ t.signatures[i].payload = << t.networkPassphrase, BodyOf(t) >>

LedgerAccepts(t) ==
    /\ SignatureValid(t)
    /\ t.seq = ledgerSeq[t.source] + 1

Emit(c, evs) == trace' = [trace EXCEPT ![c] = @ \o evs]

Reject(c, reason) ==
    /\ pc' = [pc EXCEPT ![c] = "rejected"]
    /\ error' = [error EXCEPT ![c] = reason]

\* ---------------------------------------------------------------- initial
LeaseInit ==
    /\ ledgerSeq = [k \in Keys |-> 0]
    /\ pc = [c \in Calls |-> "idle"]
    /\ args = [c \in Calls |-> NoArgs]
    /\ pubKey = [c \in Calls |-> NoKey]
    /\ account = [c \in Calls |-> NoAccount]
    /\ tx = [c \in Calls |-> NoTx]
    /\ signReq = [c \in Calls |-> NoRequest]
    /\ signedTx = [c \in Calls |-> NoEnvelope]
    /\ submitted = [c \in Calls |-> NoTx]
    /\ txResult = [c \in Calls |-> NoResult]
    /\ error = [c \in Calls |-> NoError]
    /\ trace = [c \in Calls |-> << >>]
    /\ console = << >>

PageInit ==
    /\ hpc = [h \in Clicks |-> "idle"]
    /\ hPubKey = [h \in Clicks |-> NoKey]
    /\ hError = [h \in Clicks |-> NoError]
    /\ htrace = [h \in Clicks |-> << >>]
    /\ connectResult = [h \in Clicks |-> NoKey]
    /\ alerts = [h \in Clicks |-> 0]
    /\ enableCalls = [h \in Clicks |-> 0]
    /\ textContent = << >>

Init ==
    /\ walletPresent \in BOOLEAN
    /\ LeaseInit
    /\ PageInit

\* ------------------------------------------------------------- createLease
\* Variant: createLease serialized behind a lock, so a call starts only when no
\* other call is in flight.
CreateLeaseLocked(c, a) ==
    /\ pc[c] = "idle"
    /\ \A d \in Calls \ {c} : pc[d] \in { "idle", "done", "rejected" }
    /\ args' = [args EXCEPT ![c] = a]
    /\ IF walletPresent
         THEN /\ pc' = [pc EXCEPT ![c] = "awaitKey"]
              /\ Emit(c, << "call", "keyReq" >>)
              /\ UNCHANGED error
         ELSE /\ Reject(c, "TypeError")
              /\ Emit(c, << "call" >>)
    /\ UNCHANGED << walletPresent, ledgerSeq, pubKey, account, tx, signReq,
                    signedTx, submitted, txResult, console, pageVars >>

\* createLease(assetId, duration, price) is called; runs up to the first await.
\* With no extension, window.freighterApi.getPublicKey() is a TypeError.
CreateLease(c, a) ==
    /\ pc[c] = "idle"
    /\ args' = [args EXCEPT ![c] = a]
    /\ IF walletPresent
         THEN /\ pc' = [pc EXCEPT ![c] = "awaitKey"]
              /\ Emit(c, << "call", "keyReq" >>)
              /\ UNCHANGED error
         ELSE /\ Reject(c, "TypeError")
              /\ Emit(c, << "call" >>)
    /\ UNCHANGED << walletPresent, ledgerSeq, pubKey, account, tx, signReq,
                    signedTx, submitted, txResult, console, pageVars >>

\* Variant: the account is requested twice after the key read.
KeyResolveDoubleFetch(c, k) ==
    /\ pc[c] = "awaitKey"
    /\ pubKey' = [pubKey EXCEPT ![c] = k]
    /\ pc' = [pc EXCEPT ![c] = "awaitAccount"]
    /\ Emit(c, << "keyRes", "fetchReq", "fetchReq" >>)
    /\ UNCHANGED << walletPresent, ledgerSeq, args, account, tx, signReq,
                    signedTx, submitted, txResult, error, console, pageVars >>

\* Variant: a snapshot fetched by an earlier call for the same key is reused
\* instead of fetching again.
KeyResolveCached(c, k) ==
    /\ pc[c] = "awaitKey"
    /\ pubKey' = [pubKey EXCEPT ![c] = k]
    /\ IF \E d \in Calls : account[d] # NoAccount /\ account[d].id = k
         THEN LET d == CHOOSE d \in Calls :
                          account[d] # NoAccount /\ account[d].id = k
                  t == BuildTx(account[d], args[c][1], args[c][2], args[c][3])
              IN /\ account' = [account EXCEPT ![c] = account[d]]
                 /\ tx' = [tx EXCEPT ![c] = t]
                 /\ signReq' = [signReq EXCEPT ![c] =
                                   [kind |-> "signRequest", xdr |-> ToXDR(t),
                                    network |-> SignNetwork]]
                 /\ pc' = [pc EXCEPT ![c] = "awaitSign"]
                 /\ Emit(c, << "keyRes", "build", "signReq" >>)
         ELSE /\ pc' = [pc EXCEPT ![c] = "awaitAccount"]
              /\ Emit(c, << "keyRes", "fetchReq" >>)
              /\ UNCHANGED << account, tx, signReq >>
    /\ UNCHANGED << walletPresent, ledgerSeq, args, signedTx, submitted,
                    txResult, error, console, pageVars >>

\* getPublicKey() resolved: const pubKey = ...; server.getAccount(pubKey) starts.
KeyResolve(c, k) ==
    /\ pc[c] = "awaitKey"
    /\ pubKey' = [pubKey EXCEPT ![c] = k]
    /\ pc' = [pc EXCEPT ![c] = "awaitAccount"]
    /\ Emit(c, << "keyRes", "fetchReq" >>)
    /\ UNCHANGED << walletPresent, ledgerSeq, args, account, tx, signReq,
                    signedTx, submitted, txResult, error, console, pageVars >>

KeyReject(c) ==
    /\ pc[c] = "awaitKey"
    /\ Reject(c, "getPublicKey failed")
    /\ Emit(c, << "keyFail" >>)
    /\ UNCHANGED << walletPresent, ledgerSeq, args, pubKey, account, tx,
                    signReq, signedTx, submitted, txResult, console, pageVars >>

\* getAccount resolved with the account's current state: the transaction is
\* built, serialized and handed to the wallet for signing.
AccountResolve(c) ==
    /\ pc[c] = "awaitAccount"
    /\ LET acct == [kind |-> "account", id |-> pubKey[c],
                    seq |-> ledgerSeq[pubKey[c]]]
           t == BuildTx(acct, args[c][1], args[c][2], args[c][3])
       IN /\ account' = [account EXCEPT ![c] = acct]
          /\ tx' = [tx EXCEPT ![c] = t]
          /\ signReq' = [signReq EXCEPT ![c] =
                            [kind |-> "signRequest", xdr |-> ToXDR(t),
                             network |-> SignNetwork]]
    /\ pc' = [pc EXCEPT ![c] = "awaitSign"]
    /\ Emit(c, << "fetchRes", "build", "signReq" >>)
    /\ UNCHANGED << walletPresent, ledgerSeq, args, pubKey, signedTx,
                    submitted, txResult, error, console, pageVars >>

\* Variant: a failed account fetch is retried once.
AccountRejectRetry(c) ==
    /\ pc[c] = "awaitAccount"
    /\ IF Len(SelectSeq(trace[c], LAMBDA e : e = "fetchReq")) < 2
         THEN /\ Emit(c, << "fetchFail", "fetchReq" >>)
              /\ UNCHANGED << pc, error >>
         ELSE /\ Reject(c, "getAccount failed")
              /\ Emit(c, << "fetchFail" >>)
    /\ UNCHANGED << walletPresent, ledgerSeq, args, pubKey, account, tx,
                    signReq, signedTx, submitted, txResult, console, pageVars >>

AccountReject(c) ==
    /\ pc[c] = "awaitAccount"
    /\ Reject(c, "getAccount failed")
    /\ Emit(c, << "fetchFail" >>)
    /\ UNCHANGED << walletPresent, ledgerSeq, args, pubKey, account, tx,
                    signReq, signedTx, submitted, txResult, console, pageVars >>

\* The continuation after `await signTransaction(...)` resolved with `signed`:
\* fromXDR is evaluated first; only if it returns is submitTransaction called.
AfterSign(c, signed) ==
    /\ signedTx' = [signedTx EXCEPT ![c] = signed]
    /\ IF FromXDRThrows(signed)
         THEN /\ Reject(c, "fromXDR failed")
              /\ Emit(c, << "signRes", "decodeFail" >>)
              /\ UNCHANGED submitted
         ELSE /\ submitted' = [submitted EXCEPT ![c] = SubmitArg(signed)]
              /\ pc' = [pc EXCEPT ![c] = "awaitSubmit"]
              /\ Emit(c, << "signRes", "submitReq" >>)
              /\ UNCHANGED error

\* The wallet returns the signed envelope, signed by its active key.
SignResolve(c, k) ==
    /\ pc[c] = "awaitSign"
    /\ AfterSign(c, WalletSign(signReq[c].xdr, signReq[c].network, k))
    /\ UNCHANGED << walletPresent, ledgerSeq, args, pubKey, account, tx,
                    signReq, txResult, console, pageVars >>

\* The user declines and the wallet resolves without a signed envelope.
SignResolveEmpty(c) ==
    /\ pc[c] = "awaitSign"
    /\ AfterSign(c, NoEnvelope)
    /\ UNCHANGED << walletPresent, ledgerSeq, args, pubKey, account, tx,
                    signReq, txResult, console, pageVars >>

\* Variant: a rejected signature request is swallowed and the unsigned
\* envelope is submitted.
SignRejectSubmits(c) ==
    /\ pc[c] = "awaitSign"
    /\ submitted' = [submitted EXCEPT ![c] = SubmitArg(signReq[c].xdr)]
    /\ pc' = [pc EXCEPT ![c] = "awaitSubmit"]
    /\ Emit(c, << "signFail", "submitReq" >>)
    /\ UNCHANGED << walletPresent, ledgerSeq, args, pubKey, account, tx,
                    signReq, signedTx, txResult, error, console, pageVars >>

\* The user declines and the wallet rejects the request.
SignReject(c) ==
    /\ pc[c] = "awaitSign"
    /\ Reject(c, "signTransaction failed")
    /\ Emit(c, << "signFail" >>)
    /\ UNCHANGED << walletPresent, ledgerSeq, args, pubKey, account, tx,
                    signReq, signedTx, submitted, txResult, console, pageVars >>

\* The ledger accepted the transaction; submitTransaction resolved and the
\* result is logged.
SubmitResolve(c) ==
    /\ pc[c] = "awaitSubmit"
    /\ LedgerAccepts(submitted[c])
    /\ ledgerSeq' = [ledgerSeq EXCEPT ![submitted[c].source] = submitted[c].seq]
    /\ LET r == [kind |-> "result", successful |-> TRUE,
                 source |-> submitted[c].source, seq |-> submitted[c].seq]
       IN /\ txResult' = [txResult EXCEPT ![c] = r]
          /\ console' = Append(console, << "Lease created!", c, r >>)
    /\ pc' = [pc EXCEPT ![c] = "done"]
    /\ Emit(c, << "submitRes", "log" >>)
    /\ UNCHANGED << walletPresent, args, pubKey, account, tx, signReq,
                    signedTx, submitted, error, pageVars >>

\* The ledger refuses the transaction, or the endpoint cannot be reached.
SubmitReject(c) ==
    /\ pc[c] = "awaitSubmit"
    /\ \E reason \in { "network error" } \cup
            (IF ~SignatureValid(submitted[c]) THEN { "tx_bad_auth" }
             ELSE IF submitted[c].seq # ledgerSeq[submitted[c].source] + 1
                  THEN { "tx_bad_seq" } ELSE {}) :
          Reject(c, reason)
    /\ Emit(c, << "submitFail" >>)
    /\ UNCHANGED << walletPresent, ledgerSeq, args, pubKey, account, tx,
                    signReq, signedTx, submitted, txResult, console, pageVars >>

LeaseNext ==
    \/ \E c \in Calls, a \in ArgTuples : CreateLease(c, a)
    \/ \E c \in Calls, k \in Keys : KeyResolve(c, k)
    \/ \E c \in Calls : KeyReject(c)
    \/ \E c \in Calls : AccountResolve(c)
    \/ \E c \in Calls : AccountReject(c)
    \/ \E c \in Calls, k \in Keys : SignResolve(c, k)
    \/ \E c \in Calls : SignResolveEmpty(c)
    \/ \E c \in Calls : SignReject(c)
    \/ \E c \in Calls : SubmitResolve(c)
    \/ \E c \in Calls : SubmitReject(c)

Spec == Init /\ [][LeaseNext]_vars

\* ------------------------------------------------- wallet bridge and page
HEmit(h, evs) == htrace' = [htrace EXCEPT ![h] = @ \o evs]

HReject(h, reason) ==
    /\ hpc' = [hpc EXCEPT ![h] = "rejected"]
    /\ hError' = [hError EXCEPT ![h] = reason]

\* Variant: the return after the alert is missing, so enable() is reached on
\* the undefined extension object.
ConnectWalletCallNoReturn(h) ==
    IF ~walletPresent
      THEN /\ alerts' = [alerts EXCEPT ![h] = @ + 1]
           /\ HReject(h, "TypeError")
           /\ HEmit(h, << "click", "connectCall", "alert", "connectThrow" >>)
           /\ UNCHANGED << connectResult, enableCalls >>
      ELSE /\ enableCalls' = [enableCalls EXCEPT ![h] = @ + 1]
           /\ hpc' = [hpc EXCEPT ![h] = "awaitEnable"]
           /\ HEmit(h, << "click", "connectCall", "enableReq" >>)
           /\ UNCHANGED << connectResult, alerts, hError >>

\* connectWallet() up to its first await or return. Without the extension it
\* alerts and returns; otherwise it calls window.freighterApi.enable().
ConnectWalletCall(h) ==
    IF ~walletPresent
      THEN /\ alerts' = [alerts EXCEPT ![h] = @ + 1]
           /\ connectResult' = [connectResult EXCEPT ![h] = Undefined]
           /\ hpc' = [hpc EXCEPT ![h] = "awaitConnect"]
           /\ HEmit(h, << "click", "connectCall", "alert", "connectReturn" >>)
           /\ UNCHANGED << enableCalls, hError >>
      ELSE /\ enableCalls' = [enableCalls EXCEPT ![h] = @ + 1]
           /\ hpc' = [hpc EXCEPT ![h] = "awaitEnable"]
           /\ HEmit(h, << "click", "connectCall", "enableReq" >>)
           /\ UNCHANGED << connectResult, alerts, hError >>

\* The connect button is clicked: the handler starts and calls connectWallet().
Click(h) ==
    /\ hpc[h] = "idle"
    /\ ConnectWalletCall(h)
    /\ UNCHANGED << walletPresent, leaseVars, hPubKey, textContent >>

\* enable() resolved: connectWallet returns that value.
EnableResolve(h, v) ==
    /\ hpc[h] = "awaitEnable"
    /\ connectResult' = [connectResult EXCEPT ![h] = v]
    /\ hpc' = [hpc EXCEPT ![h] = "awaitConnect"]
    /\ HEmit(h, << "enableRes", "connectReturn" >>)
    /\ UNCHANGED << walletPresent, leaseVars, hPubKey, hError, alerts,
                    enableCalls, textContent >>

\* enable() rejected: connectWallet rejects and so does the handler.
EnableReject(h) ==
    /\ hpc[h] = "awaitEnable"
    /\ HReject(h, "enable failed")
    /\ HEmit(h, << "enableFail", "connectThrow" >>)
    /\ UNCHANGED << walletPresent, leaseVars, hPubKey, connectResult, alerts,
                    enableCalls, textContent >>

\* The handler resumes after `await connectWallet()` and calls getPublicKey(),
\* which dereferences window.freighterApi whatever connectWallet returned.
AfterConnect(h) ==
    /\ hpc[h] = "awaitConnect"
    /\ IF walletPresent
         THEN /\ hpc' = [hpc EXCEPT ![h] = "awaitKey"]
              /\ HEmit(h, << "getPublicKeyCall", "keyReq" >>)
              /\ UNCHANGED hError
         ELSE /\ HReject(h, "TypeError")
              /\ HEmit(h, << "getPublicKeyCall", "throw" >>)
    /\ UNCHANGED << walletPresent, leaseVars, hPubKey, connectResult, alerts,
                    enableCalls, textContent >>

\* `Connected: ${pubKey}`
ConnectedText(k) == << "Connected: ", k >>

\* getPublicKey() resolved: the address element is written.
HKeyResolve(h, k) ==
    /\ hpc[h] = "awaitKey"
    /\ hPubKey' = [hPubKey EXCEPT ![h] = k]
    /\ textContent' = ConnectedText(k)
    /\ hpc' = [hpc EXCEPT ![h] = "done"]
    /\ HEmit(h, << "keyRes", "write" >>)
    /\ UNCHANGED << walletPresent, leaseVars, hError, connectResult, alerts,
                    enableCalls >>

\* Variant: a failed getPublicKey is swallowed and the element written anyway.
HKeyRejectWrites(h) ==
    /\ hpc[h] = "awaitKey"
    /\ HReject(h, "getPublicKey failed")
    /\ textContent' = ConnectedText(Undefined)
    /\ HEmit(h, << "keyFail", "write" >>)
    /\ UNCHANGED << walletPresent, leaseVars, hPubKey, connectResult, alerts,
                    enableCalls >>

\* getPublicKey() rejected: the handler rejects, nothing is written.
HKeyReject(h) ==
    /\ hpc[h] = "awaitKey"
    /\ HReject(h, "getPublicKey failed")
    /\ HEmit(h, << "keyFail" >>)
    /\ UNCHANGED << walletPresent, leaseVars, hPubKey, connectResult, alerts,
                    enableCalls, textContent >>

PageNext ==
    \/ \E h \in Clicks : Click(h)
    \/ \E h \in Clicks, v \in EnableResults : EnableResolve(h, v)
    \/ \E h \in Clicks : EnableReject(h)
    \/ \E h \in Clicks : AfterConnect(h)
    \/ \E h \in Clicks, k \in Keys : HKeyResolve(h, k)
    \/ \E h \in Clicks : HKeyReject(h)

SpecPage == Init /\ [][PageNext]_vars

\* ----------------------------------------------------------------- helpers
Count(s, e) == Cardinality({ i \in 1..Len(s) : s[i] = e })
Has(s, e) == \E i \in 1..Len(s) : s[i] = e
IsPrefix(s, t) == Len(s) <= Len(t) /\ \A i \in 1..Len(s) : s[i] = t[i]
Pos(s, e) == CHOOSE i \in 1..Len(s) : s[i] = e
Before(s, e, f) == Has(s, e) /\ Has(s, f) /\ Pos(s, e) < Pos(s, f)

\* The events of a createLease call in which every external call succeeds.
FullTrace ==
    << "call", "keyReq", "keyRes", "fetchReq", "fetchRes", "build", "signReq",
       "signRes", "submitReq", "submitRes", "log" >>
FailureEvents ==
    { "keyFail", "fetchFail", "signFail", "decodeFail", "submitFail" }
\* The last event a call may have recorded while suspended at each await.
PendingEvent(p) ==
    CASE p = "awaitKey" -> "keyReq"
      [] p = "awaitAccount" -> "fetchReq"
      [] p = "awaitSign" -> "signReq"
      [] p = "awaitSubmit" -> "submitReq"
InFlight(c) == pc[c] \in { "awaitKey", "awaitAccount", "awaitSign", "awaitSubmit" }

\* ------------------------------------------------------------------ claims
\* C1: a createLease call in which the wallet is present and every external
\* call succeeds performs exactly one key read, one account fetch, one build,
\* one sign request, one submission and one result log, in that order; while
\* it runs its events are a prefix of that order and the last one is the
\* request it is suspended on, so no step starts before the previous resolved.
C1_SequentialSingleShot ==
    \A c \in Calls :
        /\ pc[c] = "done" => trace[c] = FullTrace
        /\ InFlight(c) =>
              /\ IsPrefix(trace[c], FullTrace)
              /\ trace[c][Len(trace[c])] = PendingEvent(pc[c])
        /\ \A e \in { "keyReq", "fetchReq", "build", "signReq", "submitReq", "log" } :
              Count(trace[c], e) <= 1

C1_Witness ==
    \E c \in Calls :
        /\ pc[c] = "done"
        /\ args[c] = << "asset-42", 30, 100 >>
        /\ trace[c] = FullTrace

\* C2: every transaction a createLease call submits holds exactly one
\* operation, invoking create_lease on the fixed contract id with that same
\* call's own (assetId, duration, price), in order, also when several calls are
\* in flight.
C2_SubmittedArgsAreOwn ==
    \A c \in Calls :
        submitted[c] # NoTx =>
            /\ Len(submitted[c].operations) = 1
            /\ submitted[c].operations[1].contract = contractId
            /\ submitted[c].operations[1].method = "create_lease"
            /\ submitted[c].operations[1].params = args[c]

C2_Witness ==
    \E c, d \in Calls :
        /\ c # d
        /\ pc[c] = "awaitSubmit" /\ pc[d] = "awaitSubmit"
        /\ args[c] # args[d]
        /\ submitted[c].operations[1].params = args[c]
        /\ submitted[d].operations[1].params = args[d]

\* C5: a createLease call whose signature request was declined (the wallet
\* rejected it, or resolved without a signed envelope) never reaches the
\* submission step and logs no result.
Declined(c) ==
    \/ Has(trace[c], "signFail")
    \/ Has(trace[c], "signRes") /\ signedTx[c] = NoEnvelope

C5_DeclinedNeverSubmits ==
    \A c \in Calls :
        Declined(c) =>
            /\ ~Has(trace[c], "submitReq")
            /\ submitted[c] = NoTx
            /\ ~Has(trace[c], "log")
            /\ \A i \in 1..Len(console) : console[i][2] # c
            /\ pc[c] = "rejected"

C5_Witness ==
    \E c, d \in Calls :
        /\ Has(trace[c], "signFail")
        /\ Has(trace[d], "signRes") /\ signedTx[d] = NoEnvelope
        /\ pc[c] = "rejected" /\ pc[d] = "rejected"

\* C6: the envelope handed to the wallet is the serialization of the
\* transaction built in the same call, and the transaction submitted is the
\* wallet's signed envelope for it, read back against the network (TESTNET)
\* it was built and signed for; its body is the built transaction's.
C6_EnvelopeIntegrity ==
    \A c \in Calls :
        /\ signReq[c] # NoRequest =>
              /\ signReq[c].xdr.body = BodyOf(tx[c])
              /\ signReq[c].xdr.signatures = << >>
              /\ PassphraseOf(signReq[c].network) = tx[c].networkPassphrase
              /\ tx[c].networkPassphrase = NetworksTESTNET
        /\ submitted[c] # NoTx =>
              /\ BodyOf(submitted[c]) = BodyOf(tx[c])
              /\ BodyOf(submitted[c]) = signedTx[c].body
              /\ submitted[c].signatures = signedTx[c].signatures
              /\ Len(submitted[c].signatures) = 1
              /\ submitted[c].signatures[1].payload =
                     << submitted[c].networkPassphrase, BodyOf(tx[c]) >>
              /\ submitted[c].networkPassphrase = tx[c].networkPassphrase

C6_Witness ==
    \E c \in Calls :
        /\ pc[c] = "done"
        /\ BodyOf(submitted[c]) = BodyOf(tx[c])
        /\ Len(submitted[c].signatures) = 1

\* C7: every transaction is built from a snapshot fetched in the same call,
\* after that call's key read and before its build; over all calls the number
\* of snapshots fetched equals the number of transactions built.
Sum(f) ==
    LET S[n \in 0..MaxCalls] == IF n = 0 THEN 0 ELSE S[n - 1] + f[n]
    IN S[MaxCalls]
Fetches == Sum([c \in Calls |-> Count(trace[c], "fetchRes")])
Builds == Sum([c \in Calls |-> Count(trace[c], "build")])

C8_NoMutualExclusion ==
    /\ \A c \in Calls : pc[c] = "idle" =>
          \A a \in ArgTuples : ENABLED CreateLease(c, a)
    /\ \A c \in Calls : pc[c] = "awaitAccount" => ENABLED AccountResolve(c)
    /\ \A c, d \in Calls :
          (c # d /\ tx[c] # NoTx /\ tx[d] # NoTx /\ account[c] = account[d]) =>
              /\ tx[c].seq = tx[d].seq
              /\ ~(pc[c] = "done" /\ pc[d] = "done")

C8_Witness ==
    \E c, d \in Calls :
        /\ c # d
        /\ account[c] = account[d]
        /\ submitted[c] # NoTx /\ submitted[d] # NoTx
        /\ submitted[c].source = submitted[d].source
        /\ submitted[c].seq = submitted[d].seq
        /\ pc[c] = "done"
        /\ pc[d] = "rejected" /\ error[d] = "tx_bad_seq"

\* C9: createLease is single-shot: a failed key read, account fetch, signing
\* or submission rejects the call, nothing after the failed step runs, no
\* step runs twice, and the result is logged only right after the submission
\* resolved.
C9_NoRetryNoRecovery ==
    \A c \in Calls :
        /\ \A e \in { "call", "keyReq", "fetchReq", "build", "signReq",
                      "submitReq", "log" } : Count(trace[c], e) <= 1
        /\ (\E e \in FailureEvents : Has(trace[c], e)) =>
              /\ pc[c] = "rejected"
              /\ error[c] # NoError
              /\ trace[c][Len(trace[c])] \in FailureEvents
              /\ IsPrefix(SubSeq(trace[c], 1, Len(trace[c]) - 1), FullTrace)
              /\ txResult[c] = NoResult
        /\ Has(trace[c], "log") =>
              /\ Before(trace[c], "submitRes", "log")
              /\ Pos(trace[c], "log") = Pos(trace[c], "submitRes") + 1
              /\ txResult[c] # NoResult
        /\ Len(console) = Cardinality({ d \in Calls : pc[d] = "done" })

C9_Witness ==
    \E c, d \in Calls :
        /\ pc[c] = "rejected" /\ error[c] = "network error"
        /\ trace[c] = SubSeq(FullTrace, 1, 9) \o << "submitFail" >>
        /\ pc[d] = "rejected" /\ error[d] = "getAccount failed"
        /\ trace[d] = SubSeq(FullTrace, 1, 4) \o << "fetchFail" >>

\* C3: with no wallet extension, a connectWallet() call resolves without
\* throwing, alerts exactly once, returns no value and never calls enable().
C3_ConnectWithoutWallet ==
    ~walletPresent =>
        \A h \in Clicks :
            hpc[h] # "idle" =>
                /\ Has(htrace[h], "connectReturn")
                /\ ~Has(htrace[h], "connectThrow")
                /\ alerts[h] = 1
                /\ Count(htrace[h], "alert") = 1
                /\ connectResult[h] = Undefined
                /\ enableCalls[h] = 0

C3_Witness ==
    /\ ~walletPresent
    /\ \E h \in Clicks : hpc[h] = "awaitConnect" /\ alerts[h] = 1

\* C4: with no wallet extension, the click handler issues no getPublicKey
\* request after connectWallet resolved and ends without an uncaught failure.
C4_NoKeyRequestWithoutWallet ==
    ~walletPresent =>
        \A h \in Clicks :
            /\ ~Has(htrace[h], "getPublicKeyCall")
            /\ hpc[h] # "rejected"
            /\ hError[h] = NoError

\* C10: the address element holds 'Connected: <pubKey>' only of a handler run
\* in which connectWallet resolved and then getPublicKey resolved with that
\* pubKey; a run without the extension or with a failed getPublicKey never
\* writes it.
FullClick ==
    << "click", "connectCall", "enableReq", "enableRes", "connectReturn",
       "getPublicKeyCall", "keyReq", "keyRes", "write" >>

C10_AddressWrittenAfterKey ==
    /\ textContent # << >> =>
          \E h \in Clicks :
              /\ hpc[h] = "done"
              /\ hPubKey[h] \in Keys
              /\ textContent = << "Connected: ", hPubKey[h] >>
    /\ \A h \in Clicks :
          Has(htrace[h], "write") => htrace[h] = FullClick /\ hpc[h] = "done"
    /\ ~walletPresent => textContent = << >>

C10_Witness ==
    \E h, g \in Clicks :
        /\ hpc[h] = "done" /\ textContent = << "Connected: ", hPubKey[h] >>
        /\ hpc[g] = "rejected" /\ hError[g] = "getPublicKey failed"

====
